---- MODULE Spec2Model ----
(***************************************************************************)
(* Model of the seller-apis synchroniser: src/seller.py (Marketplace A,    *)
(* Ozon) and src/market.py (Marketplace B, Yandex Market).                 *)
(*                                                                         *)
(* Texts (quantity cells, price cells) are sequences of one-character      *)
(* strings, so that int(), str.split and re.sub are computed on the        *)
(* characters.  Product codes are opaque strings.  The Cyrillic currency   *)
(* suffix of a price cell is written "rub." in Latin letters.              *)
(***************************************************************************)
EXTENDS Integers, Sequences, FiniteSets, TLC

VARIABLES
    pc,              \* position of the modelled caller
    watch_remnants,  \* the local records (list of rows of the report)
    offer_ids,       \* the caller's identifier list (create_stocks mutates it)
    ids_in,          \* the identifier list as it was when passed to create_stocks
    stocks,          \* the list create_stocks returned
    prices,          \* the list create_prices returned
    raised,          \* the exception that ended the operation, or "none"
    div_lst,         \* divide: the list to split (its argument lst)
    div_n,           \* divide: the chunk size (its argument n)
    chunks,          \* divide: list(divide(lst, n))
    product_list,    \* get_offer_ids: the products accumulated (their codes)
    cursor,          \* get_offer_ids: last_id (seller.py) or page (market.py)
    total,           \* get_offer_ids of seller.py: the total last reported
    disk,            \* download_stock: the working directory, file -> the run
                     \*   whose extraction wrote it, or "absent"
    run_pc,          \* download_stock: each run's position
    archive,         \* download_stock: the archive each run downloaded
    parsed,          \* download_stock: whose file each run parsed ("nothing")
    dl_raised,       \* download_stock: the exception that ended each run
    extracted,       \* download_stock: the runs that have extracted their archive
    calls,           \* main: the marketplace calls issued so far, in order
    pending,         \* main: the chunks of list(divide(...)) not yet submitted
    channel,         \* market.main: the campaign being synchronised
    catalogs,        \* main: the identifier lists get_offer_ids returned
    coroutines,      \* market.main: coroutine objects created and not awaited
    again,           \* the list a second call of create_stocks / create_prices
                     \*   with the same arguments returned
    price_text,      \* price_conversion: its argument price
    price_groups,    \* price_conversion: the digit groups price_text was
                     \*   written from (<<>> for None)
    converted        \* price_conversion: the text it returned

reconVars == <<watch_remnants, offer_ids, ids_in, stocks, prices, raised>>
divVars == <<div_lst, div_n, chunks>>

pageVars == <<product_list, cursor, total>>

dlVars == <<disk, run_pc, archive, parsed, dl_raised, extracted>>

mainVars == <<calls, pending, channel, catalogs, coroutines>>

priceVars == <<price_text, price_groups, converted>>

vars == <<pc, reconVars, divVars, pageVars, dlVars, mainVars, again, priceVars>>

\* the variables an operation of one part leaves alone
notRecon == <<divVars, pageVars, dlVars, mainVars, again, priceVars>>
notDiv == <<reconVars, pageVars, dlVars, mainVars, again, priceVars>>
notPage == <<divVars, dlVars, mainVars, again, priceVars>>
notDl == <<pc, reconVars, divVars, pageVars, mainVars, again, priceVars>>
notMain == <<divVars, pageVars, dlVars, again, priceVars>>

(***************************** texts ***************************************)

Digits == {"0", "1", "2", "3", "4", "5", "6", "7", "8", "9"}

\* value of one decimal digit character
DigitVal(c) ==
    CASE c = "0" -> 0 [] c = "1" -> 1 [] c = "2" -> 2 [] c = "3" -> 3
      [] c = "4" -> 4 [] c = "5" -> 5 [] c = "6" -> 6 [] c = "7" -> 7
      [] c = "8" -> 8 [] c = "9" -> 9

\* Python's None for a cell that holds no text
NoneValue == <<"<None>">>

RECURSIVE DigitsToNat(_)
\* the natural number a non-empty sequence of digit characters denotes
DigitsToNat(ds) ==
    IF ds = <<>> THEN 0
    ELSE 10 * DigitsToNat(SubSeq(ds, 1, Len(ds) - 1)) + DigitVal(ds[Len(ds)])

RECURSIVE LStrip(_)
LStrip(t) == IF t # <<>> /\ Head(t) = " " THEN LStrip(Tail(t)) ELSE t

RECURSIVE RStrip(_)
RStrip(t) ==
    IF t # <<>> /\ t[Len(t)] = " " THEN RStrip(SubSeq(t, 1, Len(t) - 1)) ELSE t

\* int(x) of Python on a text: surrounding blanks are stripped, one optional
\* sign, then at least one digit and nothing else; otherwise ValueError, and
\* TypeError on None.  IntParses says whether int(x) returns.
IntBody(t) ==
    LET s == RStrip(LStrip(t))
    IN  IF s # <<>> /\ Head(s) \in {"+", "-"} THEN Tail(s) ELSE s

IntParses(t) ==
    /\ t # NoneValue
    /\ IntBody(t) # <<>>
    /\ \A i \in 1..Len(IntBody(t)) : IntBody(t)[i] \in Digits

IntOf(t) ==
    LET s == RStrip(LStrip(t))
    IN  IF s # <<>> /\ Head(s) = "-" THEN 0 - DigitsToNat(IntBody(t))
        ELSE DigitsToNat(IntBody(t))

(************************* list helpers ************************************)

\* x in lst
InList(x, lst) == \E i \in 1..Len(lst) : lst[i] = x

\* lst.remove(x): drops the first occurrence of x (x is in lst)
Remove(lst, x) ==
    LET k == CHOOSE i \in 1..Len(lst) :
                 lst[i] = x /\ \A j \in 1..(i - 1) : lst[j] # x
    IN  SubSeq(lst, 1, k - 1) \o SubSeq(lst, k + 1, Len(lst))

(*************************** Price Normalizer ******************************)

\* the text before the last "." instead of the first
BeforeFirstDot_Last(t) ==
    IF \E i \in 1..Len(t) : t[i] = "."
    THEN LET k == CHOOSE i \in 1..Len(t) :
                      t[i] = "." /\ \A j \in (i + 1)..Len(t) : t[j] # "."
         IN  SubSeq(t, 1, k - 1)
    ELSE t

\* price.split(".")[0]: the text before the first "." (all of it without ".")
BeforeFirstDot(t) ==
    IF \E i \in 1..Len(t) : t[i] = "."
    THEN LET k == CHOOSE i \in 1..Len(t) :
                      t[i] = "." /\ \A j \in 1..(i - 1) : t[j] # "."
         IN  SubSeq(t, 1, k - 1)
    ELSE t

IsDigit(c) == c \in Digits

\* price_conversion raises AttributeError on None (None has no split)
price_conversion_raises(price) == price = NoneValue

\* re.sub("[^0-9]", "", price.split(".")[0]): a text of digits, possibly empty
price_conversion(price) == SelectSeq(BeforeFirstDot(price), IsDigit)

(******************************* Batcher ***********************************)

\* chunk starts that leave out a final chunk shorter than n
ChunkStarts_FullOnly(len, n) == {i \in 0..(len - n) : i % n = 0}

\* range(0, len(lst), n) of divide, n > 0: the chunk start offsets 0, n, 2n, ...
ChunkStarts(len, n) == {i \in 0..(len - 1) : i % n = 0}

\* lst[i : i + n], a Python slice (the end is clipped to the list)
Slice(lst, i, j) == SubSeq(lst, i + 1, IF j < Len(lst) THEN j ELSE Len(lst))

\* list(divide(lst, n)): the chunks in the order they are yielded
divide(lst, n) ==
    LET count == Cardinality(ChunkStarts(Len(lst), n))
    IN  [k \in 1..count |-> Slice(lst, (k - 1) * n, (k - 1) * n + n)]

(***************************** Reconciler **********************************)

\* one row of the report: the cells "Kod" (code), "Kolichestvo" (quantity)
\* and "Tsena" (price); the code cell holds text, so str() leaves it as it is
Row(code, qty, price) == [Kod |-> code, Kolichestvo |-> qty, Tsena |-> price]

GT10 == <<">", "1", "0">>
ONE == <<"1">>

\* the exception int(x) raises, "none" when it returns
IntError(t) ==
    IF t = NoneValue THEN "TypeError"
    ELSE IF IntParses(t) THEN "none" ELSE "ValueError"

\* a stock rule that reads the text "1" as one unit
StockOfCount_OneIsOne(count) ==
    IF count = GT10 THEN 100 ELSE IntOf(count)

\* seller.create_stocks, lines 252-258: the stock of a matched row
\* (evaluated only when int() does not raise)
StockOfCount(count) ==
    IF count = GT10 THEN 100
    ELSE IF count = ONE THEN 0
    ELSE IntOf(count)

\* whether computing the stock of a matched row raises, and what
StockError(count) ==
    IF count = GT10 \/ count = ONE THEN "none" ELSE IntError(count)

RECURSIVE SellerStocksLoop(_, _, _)
\* seller.create_stocks, the loop over watch_remnants (lines 250-260).
\* rest: rows still to visit; acc: stocks so far; ids: offer_ids as mutated.
SellerStocksLoop(rest, acc, ids) ==
    IF rest = <<>> THEN [stocks |-> acc, offer_ids |-> ids, raised |-> "none"]
    ELSE LET watch == Head(rest)
         IN  IF InList(watch.Kod, ids)
             THEN IF StockError(watch.Kolichestvo) # "none"
                  THEN [stocks |-> acc, offer_ids |-> ids,
                        raised |-> StockError(watch.Kolichestvo)]
                  ELSE SellerStocksLoop(
                           Tail(rest),
                           Append(acc, [offer_id |-> watch.Kod,
                                        stock |-> StockOfCount(watch.Kolichestvo)]),
                           Remove(ids, watch.Kod))
             ELSE SellerStocksLoop(Tail(rest), acc, ids)

\* seller.create_stocks(watch_remnants, offer_ids): the list returned, the
\* caller's offer_ids after the call, and the exception raised ("none": returned)
seller_create_stocks(remnants, ids) ==
    LET r == SellerStocksLoop(remnants, <<>>, ids)
    IN  IF r.raised # "none" THEN r
        ELSE [stocks |-> r.stocks \o
                         [k \in 1..Len(r.offer_ids) |->
                             [offer_id |-> r.offer_ids[k], stock |-> 0]],
              offer_ids |-> r.offer_ids,
              raised |-> "none"]

\* market.create_stocks: one entry of the payload
MarketStock(sku, warehouse_id, count, date) ==
    [sku |-> sku, warehouseId |-> warehouse_id,
     items |-> <<[count |-> count, type |-> "FIT", updatedAt |-> date]>>]

RECURSIVE MarketStocksLoop(_, _, _, _, _)
\* market.create_stocks, the loop over watch_remnants (lines 189-211)
MarketStocksLoop(rest, acc, ids, warehouse_id, date) ==
    IF rest = <<>> THEN [stocks |-> acc, offer_ids |-> ids, raised |-> "none"]
    ELSE LET watch == Head(rest)
         IN  IF InList(watch.Kod, ids)
             THEN IF StockError(watch.Kolichestvo) # "none"
                  THEN [stocks |-> acc, offer_ids |-> ids,
                        raised |-> StockError(watch.Kolichestvo)]
                  ELSE MarketStocksLoop(
                           Tail(rest),
                           Append(acc, MarketStock(watch.Kod, warehouse_id,
                                       StockOfCount(watch.Kolichestvo), date)),
                           Remove(ids, watch.Kod), warehouse_id, date)
             ELSE MarketStocksLoop(Tail(rest), acc, ids, warehouse_id, date)

\* market.create_stocks(watch_remnants, offer_ids, warehouse_id); date is the
\* clock reading of line 188
market_create_stocks(remnants, ids, warehouse_id, date) ==
    LET r == MarketStocksLoop(remnants, <<>>, ids, warehouse_id, date)
    IN  IF r.raised # "none" THEN r
        ELSE [stocks |-> r.stocks \o
                         [k \in 1..Len(r.offer_ids) |->
                             MarketStock(r.offer_ids[k], warehouse_id, 0, date)],
              offer_ids |-> r.offer_ids,
              raised |-> "none"]

RECURSIVE SellerPricesLoop(_, _, _)
\* seller.create_prices, lines 298-309
SellerPricesLoop(rest, acc, ids) ==
    IF rest = <<>> THEN [prices |-> acc, raised |-> "none"]
    ELSE LET watch == Head(rest)
         IN  IF InList(watch.Kod, ids)
             THEN IF price_conversion_raises(watch.Tsena)
                  THEN [prices |-> acc, raised |-> "AttributeError"]
                  ELSE SellerPricesLoop(
                           Tail(rest),
                           Append(acc, [auto_action_enabled |-> "UNKNOWN",
                                        currency_code |-> "RUB",
                                        offer_id |-> watch.Kod,
                                        old_price |-> "0",
                                        price |-> price_conversion(watch.Tsena)]),
                           ids)
             ELSE SellerPricesLoop(Tail(rest), acc, ids)

seller_create_prices(remnants, ids) == SellerPricesLoop(remnants, <<>>, ids)

\* market.create_prices line 259: int(price_conversion(...)) raises
\* AttributeError on None and ValueError on a text without a leading digit
MarketPriceError(price) ==
    IF price_conversion_raises(price) THEN "AttributeError"
    ELSE IF price_conversion(price) = <<>> THEN "ValueError" ELSE "none"

RECURSIVE MarketPricesLoop(_, _, _)
\* market.create_prices, lines 252-268
MarketPricesLoop(rest, acc, ids) ==
    IF rest = <<>> THEN [prices |-> acc, raised |-> "none"]
    ELSE LET watch == Head(rest)
         IN  IF InList(watch.Kod, ids)
             THEN IF MarketPriceError(watch.Tsena) # "none"
                  THEN [prices |-> acc, raised |-> MarketPriceError(watch.Tsena)]
                  ELSE MarketPricesLoop(
                           Tail(rest),
                           Append(acc, [id |-> watch.Kod,
                                        price |-> [value |-> DigitsToNat(
                                                       price_conversion(watch.Tsena)),
                                                   currencyId |-> "RUR"]]),
                           ids)
             ELSE MarketPricesLoop(Tail(rest), acc, ids)

market_create_prices(remnants, ids) == MarketPricesLoop(remnants, <<>>, ids)

(********************** inputs of the reconciler ***************************)

MaxRecords == 2
MaxIds == 2

\* all sequences over S of length at most n
SeqsUpTo(S, n) == UNION {[1..k -> S] : k \in 0..n}

\* identifiers the marketplace may list, and codes the report may hold
\* ("Z999" is in no catalog)
CatalogIds == {"A123", "B456"}
Codes == CatalogIds \cup {"Z999"}

\* "5'990.00 rub."
Price5990 == <<"5", "'", "9", "9", "0", ".", "0", "0", " ", "r", "u", "b", ".">>
\* "12 340.00 rub."
Price12340 ==
    <<"1", "2", " ", "3", "4", "0", ".", "0", "0", " ", "r", "u", "b", ".">>
\* "990.00 rub."
Price990 == <<"9", "9", "0", ".", "0", "0", " ", "r", "u", "b", ".">>

\* the (quantity, price) cells a row may hold
Cells ==
    { <<GT10, Price5990>>,
      <<ONE, Price12340>>,
      <<<<"2", "5">>, Price990>>,
      <<<<"-", "3">>, Price990>>,
      <<<<"0", "1">>, Price990>>,
      <<<<"x">>, NoneValue>> }

Rows == {Row(c, cell[1], cell[2]) : c \in Codes, cell \in Cells}

Warehouses == {"wh_fbs", "wh_dbs"}
Dates == {"2025-10-19T12:00:00Z", "2025-10-19T12:00:01Z"}

(***************** the reconciler called on its own ************************)

\* the parts a specification does not exercise stay as constructed
IdleRecon ==
    /\ again = <<>>
    /\ watch_remnants = <<>>
    /\ offer_ids = <<>>
    /\ ids_in = <<>>
    /\ stocks = <<>>
    /\ prices = <<>>
    /\ raised = "none"

IdleDiv == div_lst = <<>> /\ div_n = 1 /\ chunks = <<>>

IdlePage == product_list = <<>> /\ cursor = "" /\ total = 0

\* the runs of download_stock that may share a working directory
Runs == {"run1", "run2"}
\* the files an archive may hold; download_stock reads and removes the first
ExcelFile == "ostatki.xls"
Files == {ExcelFile, "other.xls"}

IdleDl ==
    /\ disk = [f \in Files |-> "absent"]
    /\ run_pc = [r \in Runs |-> "idle"]
    /\ archive = [r \in Runs |-> [members |-> {}, well_formed |-> TRUE]]
    /\ parsed = [r \in Runs |-> "nothing"]
    /\ dl_raised = [r \in Runs |-> "none"]
    /\ extracted = {}

IdlePrice == price_text = <<>> /\ price_groups = <<>> /\ converted = <<>>

IdleMain ==
    /\ calls = <<>>
    /\ pending = <<>>
    /\ channel = "none"
    /\ catalogs = <<>>
    /\ coroutines = <<>>

InitRecon ==
    /\ pc = "start"
    /\ IdleDiv
    /\ IdlePage
    /\ IdleDl
    /\ IdleMain
    /\ IdlePrice
    /\ again = <<>>
    /\ watch_remnants \in SeqsUpTo(Rows, MaxRecords)
    /\ offer_ids \in SeqsUpTo(CatalogIds, MaxIds)
    /\ ids_in = offer_ids
    /\ stocks = <<>>
    /\ prices = <<>>
    /\ raised = "none"

\* stocks = create_stocks(watch_remnants, offer_ids) of seller.py
SellerCreateStocks ==
    /\ pc = "start"
    /\ LET r == seller_create_stocks(watch_remnants, offer_ids)
       IN  /\ stocks' = r.stocks
           /\ offer_ids' = r.offer_ids
           /\ raised' = r.raised
    /\ pc' = "seller_stocks"
    /\ UNCHANGED <<watch_remnants, ids_in, prices>>
    /\ UNCHANGED notRecon

\* stocks = create_stocks(watch_remnants, offer_ids, warehouse_id) of market.py
MarketCreateStocks ==
    /\ pc = "start"
    /\ \E w \in Warehouses, d \in Dates :
         LET r == market_create_stocks(watch_remnants, offer_ids, w, d)
         IN  /\ stocks' = r.stocks
             /\ offer_ids' = r.offer_ids
             /\ raised' = r.raised
    /\ pc' = "market_stocks"
    /\ UNCHANGED <<watch_remnants, ids_in, prices>>
    /\ UNCHANGED notRecon

\* prices = create_prices(watch_remnants, offer_ids) of seller.py
SellerCreatePrices ==
    /\ pc = "start"
    /\ LET r == seller_create_prices(watch_remnants, offer_ids)
       IN  /\ prices' = r.prices
           /\ raised' = r.raised
    /\ pc' = "seller_prices"
    /\ UNCHANGED <<watch_remnants, offer_ids, ids_in, stocks>>
    /\ UNCHANGED notRecon

\* prices = create_prices(watch_remnants, offer_ids) of market.py
MarketCreatePrices ==
    /\ pc = "start"
    /\ LET r == market_create_prices(watch_remnants, offer_ids)
       IN  /\ prices' = r.prices
           /\ raised' = r.raised
    /\ pc' = "market_prices"
    /\ UNCHANGED <<watch_remnants, offer_ids, ids_in, stocks>>
    /\ UNCHANGED notRecon

\* the variables a second call leaves alone
keptBySecondCall ==
    <<watch_remnants, ids_in, stocks, prices, raised,
      divVars, pageVars, dlVars, mainVars, priceVars>>

\* create_stocks(watch_remnants, offer_ids) of seller.py called once more
\* with the same two list objects; the first result is kept in stocks
SellerCreateStocksAgain ==
    /\ pc = "seller_stocks"
    /\ raised = "none"
    /\ LET r == seller_create_stocks(watch_remnants, offer_ids)
       IN  /\ again' = r.stocks
           /\ offer_ids' = r.offer_ids
    /\ pc' = "seller_stocks_again"
    /\ UNCHANGED keptBySecondCall

\* create_stocks of market.py called once more with the same lists and the
\* same warehouse, at any later clock reading
MarketCreateStocksAgain ==
    /\ pc = "market_stocks"
    /\ raised = "none"
    /\ \E w \in Warehouses, d \in Dates :
         /\ stocks # <<>> => w = stocks[1].warehouseId
         /\ LET r == market_create_stocks(watch_remnants, offer_ids, w, d)
            IN  /\ again' = r.stocks
                /\ offer_ids' = r.offer_ids
    /\ pc' = "market_stocks_again"
    /\ UNCHANGED keptBySecondCall

\* create_prices of seller.py called once more with the same lists
SellerCreatePricesAgain ==
    /\ pc = "seller_prices"
    /\ raised = "none"
    /\ again' = seller_create_prices(watch_remnants, offer_ids).prices
    /\ pc' = "seller_prices_again"
    /\ UNCHANGED offer_ids
    /\ UNCHANGED keptBySecondCall

\* create_prices of market.py called once more with the same lists
MarketCreatePricesAgain ==
    /\ pc = "market_prices"
    /\ raised = "none"
    /\ again' = market_create_prices(watch_remnants, offer_ids).prices
    /\ pc' = "market_prices_again"
    /\ UNCHANGED offer_ids
    /\ UNCHANGED keptBySecondCall

NextRecon ==
    \/ SellerCreateStocks
    \/ MarketCreateStocks
    \/ SellerCreatePrices
    \/ MarketCreatePrices
    \/ SellerCreateStocksAgain
    \/ MarketCreateStocksAgain
    \/ SellerCreatePricesAgain
    \/ MarketCreatePricesAgain

SpecRecon == InitRecon /\ [][NextRecon]_vars

(******************** properties of the reconciler *************************)

\* identifier and quantity of a stock entry of either marketplace
StockId(e) == IF "offer_id" \in DOMAIN e THEN e.offer_id ELSE e.sku
StockQty(e) == IF "stock" \in DOMAIN e THEN e.stock ELSE e.items[1].count
\* identifier of a price entry of either marketplace
PriceId(e) == IF "offer_id" \in DOMAIN e THEN e.offer_id ELSE e.id

Range(f) == {f[i] : i \in DOMAIN f}
Occurrences(x, lst) == Cardinality({i \in 1..Len(lst) : lst[i] = x})

StocksReturned == pc \in {"seller_stocks", "market_stocks"} /\ raised = "none"
PricesReturned == pc \in {"seller_prices", "market_prices"} /\ raised = "none"

\* C1: the list create_stocks returns holds each identifier of I as the
\* identifier of exactly one entry, and no entry whose identifier is not in I,
\* whatever duplicates R and I hold.
C1_StockIdsExactlyOnce ==
    StocksReturned =>
        /\ \A id \in Range(ids_in) :
               Cardinality({k \in 1..Len(stocks) : StockId(stocks[k]) = id}) = 1
        /\ \A k \in 1..Len(stocks) : StockId(stocks[k]) \in Range(ids_in)

\* the rows of R that create_stocks matches to an identifier of I: a row is
\* matched while I still lists its code more often than earlier rows used it
IsMatchedRow(R, I, k) ==
    Cardinality({j \in 1..(k - 1) : R[j].Kod = R[k].Kod}) < Occurrences(R[k].Kod, I)
MatchedRows(R, I) ==
    LET idx == {k \in 1..Len(R) : IsMatchedRow(R, I, k)}
        nth(i) == CHOOSE k \in idx : Cardinality({j \in idx : j < k}) = i - 1
    IN  [i \in 1..Cardinality(idx) |-> R[nth(i)]]

\* the quantity a quantity text stands for under the stock rule, written out
\* for the texts of Cells
QtyOfText(t) ==
    CASE t = <<">", "1", "0">> -> 100
      [] t = <<"1">> -> 0
      [] t = <<"2", "5">> -> 25
      [] t = <<"-", "3">> -> 0 - 3
      [] t = <<"0", "1">> -> 1

\* C4: in the list create_stocks returns, an entry matched to a row has
\* quantity 100 for ">10", 0 for "1" and else the integer the text denotes;
\* every entry of an identifier without a matching row has quantity 0.
C4_StockRule ==
    StocksReturned =>
        LET m == MatchedRows(watch_remnants, ids_in)
        IN  /\ Len(m) <= Len(stocks)
            /\ \A k \in 1..Len(m) :
                   /\ StockId(stocks[k]) = m[k].Kod
                   /\ StockQty(stocks[k]) = QtyOfText(m[k].Kolichestvo)
            /\ \A k \in (Len(m) + 1)..Len(stocks) : StockQty(stocks[k]) = 0
            /\ \A k \in 1..Len(stocks) :
                   (\A j \in 1..Len(watch_remnants) :
                        watch_remnants[j].Kod # StockId(stocks[k]))
                       => StockQty(stocks[k]) = 0

\* C4 witness: records [A123: ">10"] with identifiers [A123, B456] give
\* [A123: 100, B456: 0]
C4_Witness ==
    /\ pc = "seller_stocks"
    /\ raised = "none"
    /\ watch_remnants = <<Row("A123", GT10, Price5990)>>
    /\ ids_in = <<"A123", "B456">>
    /\ stocks = <<[offer_id |-> "A123", stock |-> 100],
                  [offer_id |-> "B456", stock |-> 0]>>

\* C5: create_stocks never returns a list with a negative quantity.
C5_NoNegativeQuantity ==
    StocksReturned => \A k \in 1..Len(stocks) : StockQty(stocks[k]) >= 0

\* C6: create_prices returns exactly one entry for each identifier that is
\* both in I and among the codes of R, and no other entry.
C6_OnePricePerIdentifier ==
    PricesReturned =>
        LET both == Range(ids_in) \cap {watch_remnants[j].Kod :
                                            j \in 1..Len(watch_remnants)}
        IN  /\ \A k \in 1..Len(prices) : PriceId(prices[k]) \in both
            /\ \A id \in both :
                   Cardinality({k \in 1..Len(prices) : PriceId(prices[k]) = id}) = 1

(************************ the batcher called on its own ********************)

MaxLen == 5
MaxChunk == 3
Elems == 1..5

InitDivide ==
    /\ pc = "to_divide"
    /\ div_lst \in SeqsUpTo(Elems, MaxLen)
    /\ div_n \in 1..MaxChunk
    /\ chunks = <<>>
    /\ IdleRecon
    /\ IdlePage
    /\ IdleDl
    /\ IdleMain
    /\ IdlePrice

\* chunks = list(divide(div_lst, div_n))
Divide ==
    /\ pc = "to_divide"
    /\ chunks' = divide(div_lst, div_n)
    /\ pc' = "divided"
    /\ UNCHANGED <<div_lst, div_n>>
    /\ UNCHANGED notDiv

NextDivide == Divide

SpecDivide == InitDivide /\ [][NextDivide]_vars

RECURSIVE Concat(_)
\* the chunks joined in the order they were yielded
Concat(cs) == IF cs = <<>> THEN <<>> ELSE Head(cs) \o Concat(Tail(cs))

\* C7: the chunks of divide(S, n), n > 0, joined in order equal S; every
\* chunk but the last has length n, the last has length 1..n, and an empty S
\* yields no chunk.
C7_DivideChunks ==
    pc = "divided" =>
        /\ Concat(chunks) = div_lst
        /\ \A k \in 1..(Len(chunks) - 1) : Len(chunks[k]) = div_n
        /\ Len(chunks) > 0 =>
               Len(chunks[Len(chunks)]) >= 1 /\ Len(chunks[Len(chunks)]) <= div_n
        /\ div_lst = <<>> => chunks = <<>>

\* C7 witness: divide([1,2,3,4,5], 2) = [[1,2],[3,4],[5]]
C7_Witness ==
    /\ pc = "divided"
    /\ div_lst = <<1, 2, 3, 4, 5>>
    /\ div_n = 2
    /\ chunks = <<<<1, 2>>, <<3, 4>>, <<5>>>>

(********************* catalog retrieval: get_offer_ids *********************)

MaxProducts == 3
MaxPage == 2

\* the cursors a response may carry; "" is the empty (falsy) one
Cursors == {"", "c1", "c2"}

\* the pages a marketplace may answer with while the account holds at most
\* MaxProducts products in all
Pages == {items \in SeqsUpTo(CatalogIds, MaxPage) :
              Len(product_list) + Len(items) <= MaxProducts}
\* the totals a response may report
Totals == 0..(MaxProducts + 1)

InitPaging ==
    /\ pc \in {"seller_list", "market_list"}
    /\ IdlePage
    /\ IdleRecon
    /\ IdleDiv
    /\ IdleDl
    /\ IdleMain
    /\ IdlePrice

\* seller.get_offer_ids, one turn of the loop (lines 81-86) with a successful
\* response, and lines 87-90 when the loop ends
SellerListPage ==
    /\ pc = "seller_list"
    /\ \E items \in Pages, tot \in Totals, last_id \in Cursors :
         /\ product_list' = product_list \o items
         /\ total' = tot
         /\ cursor' = last_id
         /\ IF tot = Len(product_list')
            THEN pc' = "returned" /\ offer_ids' = product_list'
            ELSE pc' = "seller_list" /\ offer_ids' = offer_ids
    /\ UNCHANGED <<watch_remnants, ids_in, stocks, prices, raised>>
    /\ UNCHANGED notPage

\* market.get_offer_ids, one turn of the loop (lines 150-154) with a
\* successful response, and lines 155-158 when the loop ends
MarketListPage ==
    /\ pc = "market_list"
    /\ \E items \in Pages, nextPageToken \in Cursors :
         /\ product_list' = product_list \o items
         /\ cursor' = nextPageToken
         /\ IF nextPageToken = ""
            THEN pc' = "returned" /\ offer_ids' = product_list'
            ELSE pc' = "market_list" /\ offer_ids' = offer_ids
    /\ UNCHANGED <<watch_remnants, ids_in, stocks, prices, raised, total>>
    /\ UNCHANGED notPage

\* get_product_list raises (response.raise_for_status()); get_offer_ids of
\* either marketplace lets the exception through
ListPageFails ==
    /\ pc \in {"seller_list", "market_list"}
    /\ raised' = "HTTPError"
    /\ pc' = "raised"
    /\ UNCHANGED <<watch_remnants, offer_ids, ids_in, stocks, prices>>
    /\ UNCHANGED pageVars
    /\ UNCHANGED notPage

NextPaging == SellerListPage \/ MarketListPage \/ ListPageFails

SpecPaging == InitPaging /\ [][NextPaging]_vars

\* the interpreter keeps running the loop: a list call that can be made is made
FairPaging == SpecPaging /\ WF_vars(NextPaging)

\* C8: get_offer_ids issues finitely many list calls and then ends, whatever
\* successful responses the marketplace gives.
C8_RetrievalTerminates == <>(pc \in {"returned", "raised"})

(******************* Stock Source Adapter: download_stock *******************)

\* the archives the file host may serve: which files they hold and whether
\* the spreadsheet in them can be parsed
Archives == [members : SUBSET Files, well_formed : BOOLEAN]

\* one or two runs start download_stock in the same working directory
InitDownload ==
    /\ pc = "downloading"
    /\ disk = [f \in Files |-> "absent"]
    /\ run_pc \in [Runs -> {"get", "idle"}]
    /\ run_pc["run1"] = "get"
    /\ archive = [r \in Runs |-> [members |-> {}, well_formed |-> TRUE]]
    /\ parsed = [r \in Runs |-> "nothing"]
    /\ dl_raised = [r \in Runs |-> "none"]
    /\ extracted = {}
    /\ IdleRecon
    /\ IdleDiv
    /\ IdlePage
    /\ IdleMain
    /\ IdlePrice

\* lines 203-206: session.get, raise_for_status and ZipFile(...) succeed
DlGet(r) ==
    /\ run_pc[r] = "get"
    /\ \E a \in Archives : archive' = [archive EXCEPT ![r] = a]
    /\ run_pc' = [run_pc EXCEPT ![r] = "extract"]
    /\ UNCHANGED <<disk, parsed, dl_raised, extracted>>
    /\ UNCHANGED notDl

\* lines 204-206: the request fails, the status is an error or the body is
\* no zip archive
DlGetFails(r) ==
    /\ run_pc[r] = "get"
    /\ \E e \in {"ConnectionError", "HTTPError", "BadZipFile"} :
         dl_raised' = [dl_raised EXCEPT ![r] = e]
    /\ run_pc' = [run_pc EXCEPT ![r] = "raised"]
    /\ UNCHANGED <<disk, archive, parsed, extracted>>
    /\ UNCHANGED notDl

\* line 207: archive.extractall(".") writes every member, over what is there
DlExtract(r) ==
    /\ run_pc[r] = "extract"
    /\ disk' = [f \in Files |-> IF f \in archive[r].members THEN r ELSE disk[f]]
    /\ extracted' = extracted \cup {r}
    /\ run_pc' = [run_pc EXCEPT ![r] = "read"]
    /\ UNCHANGED <<archive, parsed, dl_raised>>
    /\ UNCHANGED notDl

\* lines 209-215: pd.read_excel("ostatki.xls") reads whatever file of that
\* name is in the directory; it raises when there is none or it cannot be parsed
DlRead(r) ==
    /\ run_pc[r] = "read"
    /\ IF disk[ExcelFile] = "absent"
       THEN /\ dl_raised' = [dl_raised EXCEPT ![r] = "FileNotFoundError"]
            /\ run_pc' = [run_pc EXCEPT ![r] = "raised"]
            /\ UNCHANGED parsed
       ELSE IF ~archive[disk[ExcelFile]].well_formed
       THEN /\ dl_raised' = [dl_raised EXCEPT ![r] = "ValueError"]
            /\ run_pc' = [run_pc EXCEPT ![r] = "raised"]
            /\ UNCHANGED parsed
       ELSE /\ parsed' = [parsed EXCEPT ![r] = disk[ExcelFile]]
            /\ run_pc' = [run_pc EXCEPT ![r] = "remove"]
            /\ UNCHANGED dl_raised
    /\ UNCHANGED <<disk, archive, extracted>>
    /\ UNCHANGED notDl

\* lines 216-217: os.remove("./ostatki.xls"), then return
DlRemove(r) ==
    /\ run_pc[r] = "remove"
    /\ IF disk[ExcelFile] = "absent"
       THEN /\ dl_raised' = [dl_raised EXCEPT ![r] = "FileNotFoundError"]
            /\ run_pc' = [run_pc EXCEPT ![r] = "raised"]
            /\ UNCHANGED disk
       ELSE /\ disk' = [disk EXCEPT ![ExcelFile] = "absent"]
            /\ run_pc' = [run_pc EXCEPT ![r] = "returned"]
            /\ UNCHANGED dl_raised
    /\ UNCHANGED <<archive, parsed, extracted>>
    /\ UNCHANGED notDl

NextDownload ==
    \E r \in Runs :
        \/ DlGet(r)
        \/ DlGetFails(r)
        \/ DlExtract(r)
        \/ DlRead(r)
        \/ DlRemove(r)

SpecDownload == InitDownload /\ [][NextDownload]_vars

\* C9: whenever download_stock has extracted the archive and then ends, by
\* returning or by raising, no file it extracted remains on disk.
C9_ExtractedFileRemoved ==
    \A r \in Runs :
        (r \in extracted /\ run_pc[r] \in {"returned", "raised"})
            => \A f \in Files : disk[f] # r

(************************ Sync Orchestrator: main ***************************)

\* chunk sizes and page limits of the two marketplaces
SELLER_STOCK_CHUNK == 100
SELLER_MAIN_PRICE_CHUNK == 900
SELLER_LIST_LIMIT == 1000
MARKET_STOCK_CHUNK == 2000
MARKET_LIST_LIMIT == 200

\* a catalog of the given size: the two named products, then others
Catalog(size) ==
    [k \in 1..size |->
        IF k = 1 THEN "A123" ELSE IF k = 2 THEN "B456" ELSE "N" \o ToString(k)]

\* the catalogs an account may hold: small ones, one that lists an
\* identifier twice, and one that needs more than one stock chunk
SellerCatalogs ==
    {<<>>, <<"A123">>, <<"A123", "B456">>, <<"A123", "A123">>,
     Catalog(SELLER_STOCK_CHUNK + 1)}
MarketCatalogs ==
    {<<>>, <<"A123", "B456">>, Catalog(MARKET_STOCK_CHUNK + 1)}

\* the reports download_stock may return
Reports ==
    { <<>>,
      <<Row("A123", GT10, Price5990)>>,
      <<Row("A123", GT10, Price5990), Row("B456", ONE, Price12340)>>,
      <<Row("Z999", <<"2", "5">>, Price990), Row("A123", <<"2", "5">>, Price990)>>,
      <<Row("A123", <<"x">>, NoneValue)>> }

\* the exceptions a failing request raises
RequestErrors == {"ReadTimeout", "ConnectionError", "HTTPError"}

\* one marketplace call as recorded in calls
Call(op, campaign, batch, ok) ==
    [op |-> op, campaign |-> campaign, batch |-> batch, ok |-> ok]

\* the pages a marketplace that holds catalog serves, limit entries a page
\* (one empty page when the catalog is empty)
CatalogPages(catalog, limit) ==
    IF catalog = <<>> THEN <<(<<>>)>> ELSE divide(catalog, limit)

\* the list calls of one get_offer_ids: all of them when fail_at = 0, else
\* those up to the fail_at-th, which raises
ListCalls(campaign, catalog, limit, fail_at) ==
    LET pages == CatalogPages(catalog, limit)
        made == IF fail_at = 0 THEN Len(pages) ELSE fail_at
    IN  [k \in 1..made |->
            Call("list", campaign, pages[k], fail_at = 0 \/ k < fail_at)]

CampaignOf(ch) == IF ch = "FBS" THEN "fbs" ELSE "dbs"
WarehouseOf(ch) == IF ch = "FBS" THEN "wh_fbs" ELSE "wh_dbs"

InitMain ==
    /\ pc \in {"s_get_offer_ids", "m_download"}
    /\ IdleMain
    /\ IdleRecon
    /\ IdleDiv
    /\ IdlePage
    /\ IdleDl
    /\ IdlePrice

\* where main goes after the except clauses (lines 449-454 of seller.py,
\* 361-366 of market.py) have caught an exception raised inside try
Caught(e) == pc' = "done" /\ raised' = e

(* ---- seller.main ---- *)

\* line 439, get_offer_ids returns
SellerGetOfferIds ==
    /\ pc = "s_get_offer_ids"
    /\ \E catalog \in SellerCatalogs :
         /\ calls' = calls \o ListCalls("ozon", catalog, SELLER_LIST_LIMIT, 0)
         /\ offer_ids' = catalog
         /\ ids_in' = catalog
         /\ catalogs' = Append(catalogs, catalog)
    /\ pc' = "s_download"
    /\ UNCHANGED <<watch_remnants, stocks, prices, raised>>
    /\ UNCHANGED <<pending, channel, coroutines>>
    /\ UNCHANGED notMain

\* line 439, a list call of get_offer_ids raises
SellerGetOfferIdsFails ==
    /\ pc = "s_get_offer_ids"
    /\ \E catalog \in SellerCatalogs, e \in RequestErrors :
         \E fail_at \in 1..Len(CatalogPages(catalog, SELLER_LIST_LIMIT)) :
           /\ calls' = calls \o
                  ListCalls("ozon", catalog, SELLER_LIST_LIMIT, fail_at)
           /\ Caught(e)
    /\ UNCHANGED <<watch_remnants, offer_ids, ids_in, stocks, prices>>
    /\ UNCHANGED <<pending, channel, catalogs, coroutines>>
    /\ UNCHANGED notMain

\* line 440, download_stock returns the records
SellerDownload ==
    /\ pc = "s_download"
    /\ watch_remnants' \in Reports
    /\ pc' = "s_create_stocks"
    /\ UNCHANGED <<offer_ids, ids_in, stocks, prices, raised>>
    /\ UNCHANGED mainVars
    /\ UNCHANGED notMain

\* line 440, download_stock raises
SellerDownloadFails ==
    /\ pc = "s_download"
    /\ \E e \in {"ConnectionError", "HTTPError", "BadZipFile",
                 "FileNotFoundError", "ValueError"} : Caught(e)
    /\ UNCHANGED <<watch_remnants, offer_ids, ids_in, stocks, prices>>
    /\ UNCHANGED mainVars
    /\ UNCHANGED notMain

\* lines 442-443: create_stocks, then list(divide(stocks, 100))
SellerMainCreateStocks ==
    /\ pc = "s_create_stocks"
    /\ LET r == seller_create_stocks(watch_remnants, offer_ids)
       IN  /\ offer_ids' = r.offer_ids
           /\ IF r.raised # "none"
              THEN /\ Caught(r.raised)
                   /\ UNCHANGED <<stocks, pending>>
              ELSE /\ stocks' = r.stocks
                   /\ pending' = divide(r.stocks, SELLER_STOCK_CHUNK)
                   /\ pc' = IF pending' = <<>> THEN "s_create_prices"
                            ELSE "s_update_stocks"
                   /\ UNCHANGED raised
    /\ UNCHANGED <<watch_remnants, ids_in, prices>>
    /\ UNCHANGED <<calls, channel, catalogs, coroutines>>
    /\ UNCHANGED notMain

\* line 444: update_stocks(some_stock, ...) returns
SellerUpdateStocks ==
    /\ pc = "s_update_stocks"
    /\ calls' = Append(calls, Call("update_stocks", "ozon", Head(pending), TRUE))
    /\ pending' = Tail(pending)
    /\ pc' = IF pending' = <<>> THEN "s_create_prices" ELSE "s_update_stocks"
    /\ UNCHANGED reconVars
    /\ UNCHANGED <<channel, catalogs, coroutines>>
    /\ UNCHANGED notMain

\* a loop that reports the failed chunk and sends it again
SellerUpdateStocksFails_Retry ==
    /\ pc = "s_update_stocks"
    /\ Len(calls) < 6
    /\ calls' = Append(calls, Call("update_stocks", "ozon", Head(pending), FALSE))
    /\ UNCHANGED <<pc, reconVars, pending, channel, catalogs, coroutines>>
    /\ UNCHANGED notMain

\* line 444: update_stocks raises
SellerUpdateStocksFails ==
    /\ pc = "s_update_stocks"
    /\ calls' = Append(calls, Call("update_stocks", "ozon", Head(pending), FALSE))
    /\ \E e \in RequestErrors : Caught(e)
    /\ UNCHANGED <<watch_remnants, offer_ids, ids_in, stocks, prices>>
    /\ UNCHANGED <<pending, channel, catalogs, coroutines>>
    /\ UNCHANGED notMain

\* lines 446-447: create_prices on the same offer_ids list, then
\* list(divide(prices, 900))
SellerMainCreatePrices ==
    /\ pc = "s_create_prices"
    /\ LET r == seller_create_prices(watch_remnants, offer_ids)
       IN  IF r.raised # "none"
           THEN /\ Caught(r.raised)
                /\ UNCHANGED <<prices, pending>>
           ELSE /\ prices' = r.prices
                /\ pending' = divide(r.prices, SELLER_MAIN_PRICE_CHUNK)
                /\ pc' = IF pending' = <<>> THEN "done" ELSE "s_update_price"
                /\ UNCHANGED raised
    /\ UNCHANGED <<watch_remnants, offer_ids, ids_in, stocks>>
    /\ UNCHANGED <<calls, channel, catalogs, coroutines>>
    /\ UNCHANGED notMain

\* line 448: update_price(some_price, ...) returns
SellerUpdatePrice ==
    /\ pc = "s_update_price"
    /\ calls' = Append(calls, Call("update_price", "ozon", Head(pending), TRUE))
    /\ pending' = Tail(pending)
    /\ pc' = IF pending' = <<>> THEN "done" ELSE "s_update_price"
    /\ UNCHANGED reconVars
    /\ UNCHANGED <<channel, catalogs, coroutines>>
    /\ UNCHANGED notMain

\* line 448: update_price raises
SellerUpdatePriceFails ==
    /\ pc = "s_update_price"
    /\ calls' = Append(calls, Call("update_price", "ozon", Head(pending), FALSE))
    /\ \E e \in RequestErrors : Caught(e)
    /\ UNCHANGED <<watch_remnants, offer_ids, ids_in, stocks, prices>>
    /\ UNCHANGED <<pending, channel, catalogs, coroutines>>
    /\ UNCHANGED notMain

(* ---- market.main ---- *)

\* line 342, download_stock returns the records (before the try statement)
MarketDownload ==
    /\ pc = "m_download"
    /\ watch_remnants' \in Reports
    /\ channel' = "FBS"
    /\ pc' = "m_get_offer_ids"
    /\ UNCHANGED <<offer_ids, ids_in, stocks, prices, raised>>
    /\ UNCHANGED <<calls, pending, catalogs, coroutines>>
    /\ UNCHANGED notMain

\* line 342, download_stock raises: the call is outside try, so the
\* exception leaves main
MarketDownloadFails ==
    /\ pc = "m_download"
    /\ \E e \in {"ConnectionError", "HTTPError", "BadZipFile",
                 "FileNotFoundError", "ValueError"} : raised' = e
    /\ pc' = "escaped"
    /\ UNCHANGED <<watch_remnants, offer_ids, ids_in, stocks, prices>>
    /\ UNCHANGED mainVars
    /\ UNCHANGED notMain

\* lines 345 and 354, get_offer_ids of the channel's campaign returns
MarketGetOfferIds ==
    /\ pc = "m_get_offer_ids"
    /\ \E catalog \in MarketCatalogs :
         /\ calls' = calls \o
                ListCalls(CampaignOf(channel), catalog, MARKET_LIST_LIMIT, 0)
         /\ offer_ids' = catalog
         /\ ids_in' = catalog
         /\ catalogs' = Append(catalogs, catalog)
    /\ pc' = "m_create_stocks"
    /\ UNCHANGED <<watch_remnants, stocks, prices, raised>>
    /\ UNCHANGED <<pending, channel, coroutines>>
    /\ UNCHANGED notMain

\* lines 345 and 354, a list call of get_offer_ids raises
MarketGetOfferIdsFails ==
    /\ pc = "m_get_offer_ids"
    /\ \E catalog \in MarketCatalogs, e \in RequestErrors :
         \E fail_at \in 1..Len(CatalogPages(catalog, MARKET_LIST_LIMIT)) :
           /\ calls' = calls \o ListCalls(CampaignOf(channel), catalog,
                                          MARKET_LIST_LIMIT, fail_at)
           /\ Caught(e)
    /\ UNCHANGED <<watch_remnants, offer_ids, ids_in, stocks, prices>>
    /\ UNCHANGED <<pending, channel, catalogs, coroutines>>
    /\ UNCHANGED notMain

\* lines 347-348 and 356-357: create_stocks, then list(divide(stocks, 2000))
MarketMainCreateStocks ==
    /\ pc = "m_create_stocks"
    /\ \E date \in Dates :
         LET r == market_create_stocks(watch_remnants, offer_ids,
                                       WarehouseOf(channel), date)
         IN  /\ offer_ids' = r.offer_ids
             /\ IF r.raised # "none"
                THEN /\ Caught(r.raised)
                     /\ UNCHANGED <<stocks, pending>>
                ELSE /\ stocks' = r.stocks
                     /\ pending' = divide(r.stocks, MARKET_STOCK_CHUNK)
                     /\ pc' = IF pending' = <<>> THEN "m_upload_prices"
                              ELSE "m_update_stocks"
                     /\ UNCHANGED raised
    /\ UNCHANGED <<watch_remnants, ids_in, prices>>
    /\ UNCHANGED <<calls, channel, catalogs, coroutines>>
    /\ UNCHANGED notMain

\* lines 349 and 358: update_stocks(some_stock, ...) returns
MarketUpdateStocks ==
    /\ pc = "m_update_stocks"
    /\ calls' = Append(calls, Call("update_stocks", CampaignOf(channel),
                                   Head(pending), TRUE))
    /\ pending' = Tail(pending)
    /\ pc' = IF pending' = <<>> THEN "m_upload_prices" ELSE "m_update_stocks"
    /\ UNCHANGED reconVars
    /\ UNCHANGED <<channel, catalogs, coroutines>>
    /\ UNCHANGED notMain

\* lines 349 and 358: update_stocks raises
MarketUpdateStocksFails ==
    /\ pc = "m_update_stocks"
    /\ calls' = Append(calls, Call("update_stocks", CampaignOf(channel),
                                   Head(pending), FALSE))
    /\ \E e \in RequestErrors : Caught(e)
    /\ UNCHANGED <<watch_remnants, offer_ids, ids_in, stocks, prices>>
    /\ UNCHANGED <<pending, channel, catalogs, coroutines>>
    /\ UNCHANGED notMain

\* lines 351 and 360: upload_prices(...) is an async def called without
\* await and without an event loop: the call builds a coroutine object and
\* returns it; the body (lines 292-296) does not run, so no list call and no
\* update_price call is made.  After the FBS channel comes DBS, then the end.
MarketUploadPrices ==
    /\ pc = "m_upload_prices"
    /\ coroutines' = Append(coroutines, [function |-> "upload_prices",
                                         campaign |-> CampaignOf(channel)])
    /\ IF channel = "FBS"
       THEN channel' = "DBS" /\ pc' = "m_get_offer_ids"
       ELSE channel' = channel /\ pc' = "done"
    /\ UNCHANGED reconVars
    /\ UNCHANGED <<calls, pending, catalogs>>
    /\ UNCHANGED notMain

NextMain ==
    \/ SellerGetOfferIds
    \/ SellerGetOfferIdsFails
    \/ SellerDownload
    \/ SellerDownloadFails
    \/ SellerMainCreateStocks
    \/ SellerUpdateStocks
    \/ SellerUpdateStocksFails
    \/ SellerMainCreatePrices
    \/ SellerUpdatePrice
    \/ SellerUpdatePriceFails
    \/ MarketDownload
    \/ MarketDownloadFails
    \/ MarketGetOfferIds
    \/ MarketGetOfferIdsFails
    \/ MarketMainCreateStocks
    \/ MarketUpdateStocks
    \/ MarketUpdateStocksFails
    \/ MarketUploadPrices

SpecMain == InitMain /\ [][NextMain]_vars

(************************ properties of the runs ****************************)

\* the run of seller.main (market.main) has ended without an exception
SellerRunCompleted == pc = "done" /\ channel = "none" /\ raised = "none"
MarketRunCompleted == pc = "done" /\ channel # "none" /\ raised = "none"

RecordCodes == {watch_remnants[j].Kod : j \in 1..Len(watch_remnants)}

\* an acknowledged update_price call to the campaign carried identifier id
PriceSubmitted(campaign, id) ==
    \E k \in 1..Len(calls) :
        /\ calls[k].op = "update_price"
        /\ calls[k].campaign = campaign
        /\ calls[k].ok
        /\ \E j \in 1..Len(calls[k].batch) : PriceId(calls[k].batch[j]) = id

\* C2: a seller.main run in which every call succeeds has submitted a price
\* update for every identifier that is in the fetched catalog and in the
\* local records.
C2_SellerPricesSubmitted ==
    SellerRunCompleted =>
        \A id \in Range(catalogs[1]) \cap RecordCodes : PriceSubmitted("ozon", id)

\* C3: a market.main run in which every call succeeds has, for the FBS and
\* the DBS channel, submitted to the channel's campaign a price update for
\* every identifier that is in the channel's catalog and in the local records.
C3_MarketPricesSubmitted ==
    MarketRunCompleted =>
        /\ \A id \in Range(catalogs[1]) \cap RecordCodes : PriceSubmitted("fbs", id)
        /\ \A id \in Range(catalogs[2]) \cap RecordCodes : PriceSubmitted("dbs", id)

\* C10: after a step of a run has failed the run makes no further marketplace
\* call: a failed call is the last call of the run and ends it, no call is
\* added once an exception was raised, and the calls made stay as they are.
C10_NoCallAfterFailure ==
    /\ [](\A k \in 1..Len(calls) :
              ~calls[k].ok => (k = Len(calls) /\ raised # "none"))
    /\ [][raised # "none" => calls' = calls]_vars
    /\ [][Len(calls') >= Len(calls)
          /\ SubSeq(calls', 1, Len(calls)) = calls]_vars

\* C10 witness: the second stock chunk fails after the first was
\* acknowledged, and the run has ended
C10_Witness ==
    /\ pc = "done"
    /\ Len(calls) >= 3
    /\ calls[Len(calls)].op = "update_stocks" /\ ~calls[Len(calls)].ok
    /\ calls[Len(calls) - 1].op = "update_stocks" /\ calls[Len(calls) - 1].ok


\* C11: every failure raised during a run of seller.main or market.main is
\* caught by main, which prints a message and ends the run; none leaves main.
C11_FailuresCaughtByMain == raised # "none" => pc = "done"

\* a stock list without its updatedAt timestamps
WithoutDate(list) ==
    [k \in 1..Len(list) |->
        IF "items" \in DOMAIN list[k]
        THEN [sku |-> list[k].sku, warehouseId |-> list[k].warehouseId,
              count |-> list[k].items[1].count, type |-> list[k].items[1].type]
        ELSE list[k]]

\* C12: a second call of create_stocks / create_prices made with the same
\* records and the same identifier list as the first returns the same list
\* (the updatedAt timestamp aside).
C12_SecondCallSameList ==
    /\ pc \in {"seller_stocks_again", "market_stocks_again"}
           => WithoutDate(again) = WithoutDate(stocks)
    /\ pc \in {"seller_prices_again", "market_prices_again"} => again = prices

\* C15: after create_stocks has returned, the identifier list the caller
\* passed in holds the same elements in the same order as before the call.
C15_IdentifiersUntouched == StocksReturned => offer_ids = ids_in

\* the per-call ceilings of the two marketplaces
SELLER_STOCK_LIMIT == 100
SELLER_PRICE_LIMIT == 1000
MARKET_STOCK_LIMIT == 2000
MARKET_PRICE_LIMIT == 500

\* the batches of the acknowledged op calls made to the campaign, in call order
Sent(op, campaign) ==
    LET cs == SelectSeq(calls, LAMBDA c :
                  c.op = op /\ c.campaign = campaign /\ c.ok)
    IN  [k \in 1..Len(cs) |-> cs[k].batch]

\* list went out entry by entry, in order, in calls of 1..limit entries
SentInBatches(list, op, campaign, limit) ==
    /\ Concat(Sent(op, campaign)) = list
    /\ \A k \in 1..Len(Sent(op, campaign)) :
           Len(Sent(op, campaign)[k]) \in 1..limit

\* the stock and price lists of the channel's campaign went out in batches
MarketSentInBatches(catalog, ch) ==
    /\ \E date \in Dates :
           SentInBatches(market_create_stocks(watch_remnants, catalog,
                                              WarehouseOf(ch), date).stocks,
                         "update_stocks", CampaignOf(ch), MARKET_STOCK_LIMIT)
    /\ market_create_prices(watch_remnants, catalog).raised = "none" =>
           SentInBatches(market_create_prices(watch_remnants, catalog).prices,
                         "update_price", CampaignOf(ch), MARKET_PRICE_LIMIT)

\* C14: in a run of either main in which every call succeeds, every entry of
\* each reconciled stock and price list is sent in exactly one write call, in
\* list order, and every call carries between 1 and the marketplace's limit
\* of entries (no call for an empty list).
C14_ListsSentInBatches ==
    /\ SellerRunCompleted =>
           /\ SentInBatches(stocks, "update_stocks", "ozon", SELLER_STOCK_LIMIT)
           /\ SentInBatches(prices, "update_price", "ozon", SELLER_PRICE_LIMIT)
    /\ MarketRunCompleted =>
           /\ MarketSentInBatches(catalogs[1], "FBS")
           /\ MarketSentInBatches(catalogs[2], "DBS")

\* C16: the extracted spreadsheet is isolated between runs:
\* a run that extracted its own ostatki.xls finds that very file until it has
\* parsed and removed it, parses no other run's file, and never fails because
\* the file is already gone.
C16_ExtractedFileIsolated ==
    \A r \in Runs :
        (r \in extracted /\ ExcelFile \in archive[r].members) =>
            /\ run_pc[r] \in {"read", "remove"} => disk[ExcelFile] = r
            /\ parsed[r] \in {"nothing", r}
            /\ dl_raised[r] # "FileNotFoundError"

(******************* the price normalizer called on its own *****************)

MaxGroups == 2

\* the digit groups, grouping marks, fractional digits and currency suffixes
\* a price text is written from
DigitGroups == {<<"5">>, <<"1", "2">>, <<"9", "9", "0">>, <<"3", "4", "0">>}
GroupingMarks == {"'", " "}
Fractions == {<<"0", "0">>, <<"5">>}
Suffixes == {<<" ", "r", "u", "b", ".">>, <<" ", "R", "U", "B">>}

RECURSIVE JoinGroups(_, _)
\* the digit groups gs written with the grouping marks ms between them
JoinGroups(gs, ms) ==
    IF Len(gs) = 1 THEN gs[1]
    ELSE gs[1] \o <<ms[1]>> \o JoinGroups(Tail(gs), Tail(ms))

\* "<group>['<group>]*.<fraction><suffix>"
PriceText(gs, ms, fraction, suffix) ==
    JoinGroups(gs, ms) \o <<".">> \o fraction \o suffix

InitPrice ==
    /\ pc = "to_convert"
    /\ \/ price_text = NoneValue /\ price_groups = <<>>
       \/ \E k \in 1..MaxGroups :
            \E gs \in [1..k -> DigitGroups], ms \in [1..(k - 1) -> GroupingMarks],
               fraction \in Fractions, suffix \in Suffixes :
                /\ price_text = PriceText(gs, ms, fraction, suffix)
                /\ price_groups = gs
    /\ converted = <<>>
    /\ again = <<>>
    /\ IdleRecon
    /\ IdleDiv
    /\ IdlePage
    /\ IdleDl
    /\ IdleMain

\* converted = price_conversion(price_text)
PriceConversion ==
    /\ pc = "to_convert"
    /\ IF price_conversion_raises(price_text)
       THEN /\ raised' = "AttributeError"
            /\ pc' = "conversion_raised"
            /\ UNCHANGED converted
       ELSE /\ converted' = price_conversion(price_text)
            /\ pc' = "converted"
            /\ UNCHANGED raised
    /\ UNCHANGED <<price_text, price_groups>>
    /\ UNCHANGED <<watch_remnants, offer_ids, ids_in, stocks, prices>>
    /\ UNCHANGED <<divVars, pageVars, dlVars, mainVars, again>>

NextPrice == PriceConversion

SpecPrice == InitPrice /\ [][NextPrice]_vars

\* C13: for a price text written as digit groups with grouping marks, ".",
\* fractional digits and a currency suffix, price_conversion returns exactly
\* the digits before the first "." in their order; None raises an error.
C13_PriceDigits ==
    /\ pc = "converted" =>
           price_text # NoneValue /\ converted = Concat(price_groups)
    /\ (pc # "to_convert" /\ price_text = NoneValue) =>
           pc = "conversion_raised" /\ raised = "AttributeError"

\* C13 witness: "5'990.00 rub." gives 5990
C13_Witness ==
    /\ pc = "converted"
    /\ price_text = Price5990
    /\ converted = <<"5", "9", "9", "0">>

(********************** the parts taken together ***************************)

Init ==
    InitRecon \/ InitDivide \/ InitPaging \/ InitDownload \/ InitMain \/ InitPrice

Next ==
    \/ NextRecon \/ NextDivide \/ NextPaging \/ NextDownload \/ NextMain
    \/ NextPrice

Spec == Init /\ [][Next]_vars

====
